---- MODULE Spec2Model ----
(***************************************************************************)
(* Puppy Bowl roster page (src/script.js): four API operations over       *)
(* fetch, two renderers writing <main>, the create form and its submit    *)
(* handler, and init.  One action is one run of the event loop: a user    *)
(* event or a network completion, run up to the next await.               *)
(***************************************************************************)
EXTENDS Naturals, Sequences, FiniteSets, Bags, TLC

\* ---------------------------------------------------------------- bounds
\* handlers (async functions) suspended on a request at the same time
MaxTasks == 2
\* identifiers the remote API hands out before it refuses further creates
MaxPlayers == 2

\* values a user types into the three inputs
Names == {"Rex"}
TypedForms == {[name |-> n, breed |-> "Lab", imageUrl |-> "rex.png"] : n \in Names}
EmptyForm == [name |-> "", breed |-> "", imageUrl |-> ""]

VARIABLES
    server,          \* the remote roster: sequence of player records
    nextId,          \* the identifier the remote API assigns next
    mainContainer,   \* content of <main>: sequence of elements
    form,            \* values of the inputs name, breed, imageUrl
    submitListeners, \* submit listeners attached to <form>
    tasks,           \* bag of async functions suspended at an await
    log              \* calls made by the event-loop run just finished, in order

vars == <<server, nextId, mainContainer, form, submitListeners, tasks, log>>

\* ------------------------------------------------------------ values
\* a value that may be undefined
Undefined == [defined |-> FALSE, v |-> <<>>]
Some(x) == [defined |-> TRUE, v |-> x]

Ev(e, f, a) == [e |-> e, f |-> f, a |-> a]

NoId == 0
NewTask(kind, pc, data, id) ==
    [kind |-> kind, pc |-> pc, data |-> data, id |-> id,
     resp |-> <<>>]

\* ------------------------------------------------------------ DOM
NoPlayersFound == [tag |-> "h3", text |-> "No Players Found!"]
NoPlayerFound == [tag |-> "h3", text |-> "No Player Found!"]

\* <img src=${imageUrl} alt=${name}/> : the attribute values are unquoted
Img(imageUrl, name) ==
    IF imageUrl = ""
    THEN [src |-> "alt=" \o name \o "/", alt |-> ""]
    ELSE [src |-> imageUrl, alt |-> name \o "/"]

PlayerCard(player) ==
    [tag |-> "player-card",
     h4 |-> player.name,
     p |-> player.id,
     img |-> Img(player.imageUrl, player.name),
     removeId |-> player.id,     \* remove-button listener: removePlayer(player.id)
     detail |-> player]          \* detail-button listener: renderSinglePlayer(player)

\* each card inserted at the top of <main> instead of appended
RECURSIVE forEachAppend_prepend(_, _)
forEachAppend_prepend(dom, list) ==
    IF list = <<>> THEN dom
    ELSE forEachAppend_prepend(<<PlayerCard(Head(list))>> \o dom, Tail(list))

RECURSIVE forEachAppend(_, _)
forEachAppend(dom, list) ==
    IF list = <<>> THEN dom
    ELSE forEachAppend(Append(dom, PlayerCard(Head(list))), Tail(list))

\* renderAllPlayers without `mainContainer.innerHTML = ""`
renderAllPlayers_noClear(dom, playerList) ==
    IF ~playerList.defined \/ Len(playerList.v) = 0
    THEN <<NoPlayersFound>>
    ELSE forEachAppend(dom, playerList.v)

\* renderAllPlayers adding the placeholder with `innerHTML +=`
renderAllPlayers_addPlaceholder(dom, playerList) ==
    IF ~playerList.defined \/ Len(playerList.v) = 0
    THEN Append(dom, NoPlayersFound)
    ELSE forEachAppend(<<>>, playerList.v)

\* renderAllPlayers returning early on an absent list, <main> untouched
renderAllPlayers_skipAbsent(dom, playerList) ==
    IF ~playerList.defined
    THEN dom
    ELSE IF Len(playerList.v) = 0
    THEN <<NoPlayersFound>>
    ELSE forEachAppend(<<>>, playerList.v)

renderAllPlayers(dom, playerList) ==
    IF ~playerList.defined \/ Len(playerList.v) = 0
    THEN <<NoPlayersFound>>
    ELSE forEachAppend(<<>>, playerList.v)

renderSinglePlayer(dom, player) ==
    IF ~player.defined
    THEN <<NoPlayerFound>>
    ELSE <<[tag |-> "single-player",
            h4 |-> player.v.name,
            p |-> player.v.id,
            breed |-> player.v.breed,
            img |-> Img(player.v.imageUrl, player.v.name),
            back |-> TRUE]>>

\* ------------------------------------------------------------ API client
\* How a request ends: the fetch promise rejects ("neterr"), response.json()
\* rejects ("badjson"), the body has no data member ("nodata"), or all is well.
\* Each operator is the operation's code after its last await: the value its
\* promise settles with and the calls it makes on the way.
Result(threw, value, evs) == [threw |-> threw, value |-> value, evs |-> evs]

\* fetchAllPlayers without its try/catch
fetchAllPlayers_noCatch(outcome, resp) ==
    IF outcome = "ok"
    THEN Result(FALSE, Some(resp), <<Ev("return", "fetchAllPlayers", Some(resp))>>)
    ELSE Result(TRUE, Undefined, <<>>)

fetchAllPlayers(outcome, resp) ==
    IF outcome = "ok"
    THEN Result(FALSE, Some(resp), <<Ev("return", "fetchAllPlayers", Some(resp))>>)
    ELSE Result(FALSE, Undefined,
                <<Ev("console.error", "fetchAllPlayers", outcome),
                  Ev("return", "fetchAllPlayers", Undefined)>>)

\* fetchSinglePlayer without its try/catch
fetchSinglePlayer_noCatch(outcome, resp) ==
    IF outcome = "ok"
    THEN Result(FALSE, Some(resp), <<Ev("return", "fetchSinglePlayer", Some(resp))>>)
    ELSE IF outcome = "nodata"
    THEN Result(FALSE, Undefined, <<Ev("return", "fetchSinglePlayer", Undefined)>>)
    ELSE Result(TRUE, Undefined, <<>>)

\* `return result.data` does not throw on a body without data
fetchSinglePlayer(outcome, resp) ==
    IF outcome = "ok"
    THEN Result(FALSE, Some(resp), <<Ev("return", "fetchSinglePlayer", Some(resp))>>)
    ELSE IF outcome = "nodata"
    THEN Result(FALSE, Undefined, <<Ev("return", "fetchSinglePlayer", Undefined)>>)
    ELSE Result(FALSE, Undefined,
                <<Ev("console.error", "fetchSinglePlayer", outcome),
                  Ev("return", "fetchSinglePlayer", Undefined)>>)

\* `return result` returns the decoded body whatever it holds
addNewPlayer(outcome, resp) ==
    IF outcome \in {"ok", "nodata"}
    THEN Result(FALSE, Some(resp), <<Ev("return", "addNewPlayer", Some(resp))>>)
    ELSE Result(FALSE, Undefined,
                <<Ev("console.error", "addNewPlayer", outcome),
                  Ev("return", "addNewPlayer", Undefined)>>)

\* removePlayer has no return statement: its promise settles with undefined
removePlayer(outcome, resp) ==
    IF outcome = "ok"
    THEN Result(FALSE, Undefined, <<Ev("return", "removePlayer", Undefined)>>)
    ELSE Result(FALSE, Undefined,
                <<Ev("console.error", "removePlayer", outcome),
                  Ev("return", "removePlayer", Undefined)>>)

\* ------------------------------------------------------------ handlers
\* Each operator is the synchronous stretch of a handler between two awaits:
\* the tasks it leaves suspended, what it writes, and the calls it makes.
Effect(spawn, dom, f, listeners, evs) ==
    [spawn |-> spawn, dom |-> dom, form |-> f, listeners |-> listeners, evs |-> evs]

FetchGet == Ev("fetch", "GET /players", "")

\* init(), up to its await
initStart ==
    [spawn |-> <<NewTask("init", "list_fetch", EmptyForm, NoId)>>,
     evs |-> <<Ev("call", "fetchAllPlayers", "init"), FetchGet>>]

\* renderNewPlayerForm(): writes the inputs (empty) and adds one submit listener
renderNewPlayerForm(listeners) ==
    [form |-> EmptyForm, listeners |-> listeners + 1,
     evs |-> <<Ev("call", "renderNewPlayerForm", "init")>>]

\* init(), after its await
initAfterList(dom, f, listeners, players) ==
    LET r == renderNewPlayerForm(listeners) IN
    Effect(<<>>, renderAllPlayers(dom, players), r.form, r.listeners,
           <<Ev("call", "renderAllPlayers", players)>> \o r.evs)

\* the back button's listener, up to its await
backClick ==
    [spawn |-> <<NewTask("back", "list_fetch", EmptyForm, NoId)>>,
     evs |-> <<Ev("call", "fetchAllPlayers", "back"), FetchGet>>]

\* the back button's listener calling renderAllPlayers() without the players
backAfterList_noArg(dom, f, listeners, players) ==
    Effect(<<>>, renderAllPlayers(dom, Undefined), f, listeners,
           <<Ev("call", "renderAllPlayers", Undefined)>>)

\* the back button's listener, after its await
backAfterList(dom, f, listeners, players) ==
    Effect(<<>>, renderAllPlayers(dom, players), f, listeners,
           <<Ev("call", "renderAllPlayers", players)>>)

\* the submit listener without `await` before addNewPlayer(playerData)
submitStart_noAwait(f) ==
    LET playerData == [name |-> f.name, breed |-> f.breed, imageUrl |-> f.imageUrl] IN
    [spawn |-> <<NewTask("detached", "add_fetch", playerData, NoId),
                 NewTask("submit", "list_fetch", EmptyForm, NoId)>>,
     evs |-> <<Ev("call", "addNewPlayer", playerData),
               Ev("fetch", "POST /players", playerData),
               Ev("call", "fetchAllPlayers", "submit"), FetchGet>>]

\* the submit listener, up to its first await
submitStart(f) ==
    LET playerData == [name |-> f.name, breed |-> f.breed, imageUrl |-> f.imageUrl] IN
    [spawn |-> <<NewTask("submit", "add_fetch", playerData, NoId)>>,
     evs |-> <<Ev("call", "addNewPlayer", playerData), Ev("fetch", "POST /players", playerData)>>]

\* the submit listener, between its two awaits
submitAfterAdd(dom, f, listeners, added) ==
    Effect(<<NewTask("submit", "list_fetch", EmptyForm, NoId)>>, dom, f, listeners,
           <<Ev("call", "fetchAllPlayers", "submit"), FetchGet>>)

\* the submit listener, after its second await
submitAfterList(dom, f, listeners, players) ==
    Effect(<<>>, renderAllPlayers(dom, players),
           [name |-> "", breed |-> "", imageUrl |-> ""], listeners,
           <<Ev("call", "renderAllPlayers", players), Ev("clear", "form", "")>>)

\* the remove button's listener: removePlayer is called and not awaited
removeClick(card) ==
    [spawn |-> <<NewTask("detached", "del_fetch", EmptyForm, card.removeId)>>,
     evs |-> <<Ev("call", "removePlayer", card.removeId),
               Ev("fetch", "DELETE /players/{id}", card.removeId)>>]

\* the remove button's listener as its doc comment has it: removePlayer, then
\* fetch and render all players
removeAfterDelete_rerender(dom, f, listeners, ignored) ==
    Effect(<<NewTask("back", "list_fetch", EmptyForm, NoId)>>, dom, f, listeners,
           <<Ev("call", "fetchAllPlayers", "remove"), FetchGet>>)

\* the remove button's listener chains nothing to the promise of removePlayer
removeAfterDelete(dom, f, listeners, ignored) ==
    Effect(<<>>, dom, f, listeners, <<>>)

\* the detail button's listener
detailClick(dom, card) ==
    [dom |-> renderSinglePlayer(dom, Some(card.detail)),
     evs |-> <<Ev("call", "renderSinglePlayer", Some(card.detail))>>]

\* ------------------------------------------------------------ remote API
SeedRoster == <<[id |-> 1, name |-> "Rex", breed |-> "Lab", imageUrl |-> "rex.png"]>>

NewPlayer(id, data) ==
    [id |-> id, name |-> data.name, breed |-> data.breed, imageUrl |-> data.imageUrl]

\* ------------------------------------------------------------ event loop
RECURSIVE SeqToBag(_)
SeqToBag(s) ==
    IF s = <<>> THEN EmptyBag ELSE SetToBag({Head(s)}) (+) SeqToBag(Tail(s))

RECURSIVE Repeat(_, _)
Repeat(s, n) == IF n = 0 THEN <<>> ELSE s \o Repeat(s, n - 1)

Pending == BagToSet(tasks)
Room(n) == BagCardinality(tasks) + n <= MaxTasks

FetchPcs == {"add_fetch", "list_fetch", "del_fetch", "get_fetch"}
JsonPcs == {"add_json", "list_json", "get_json"}

\* the code that awaits the operation, resumed with its value
Continue(t, value) ==
    CASE t.kind = "init" -> initAfterList(mainContainer, form, submitListeners, value)
      [] t.kind = "back" -> backAfterList(mainContainer, form, submitListeners, value)
      [] t.kind = "submit" /\ t.pc \in {"add_fetch", "add_json"} ->
            submitAfterAdd(mainContainer, form, submitListeners, value)
      [] t.kind = "submit" /\ t.pc \in {"list_fetch", "list_json"} ->
            submitAfterList(mainContainer, form, submitListeners, value)
      [] t.kind = "detached" ->
            removeAfterDelete(mainContainer, form, submitListeners, value)
      [] t.kind = "caller" ->
            Effect(<<>>, mainContainer, form, submitListeners,
                   <<Ev("resolved", "caller", value)>>)

\* The body response.json() decodes.  A GET body is the roster as it is when
\* the body is decoded; a POST body echoes the record stored when the fetch
\* resolved (kept in t.resp), or nothing when the record was refused.
Body(t) ==
    CASE t.pc \in {"list_fetch", "list_json"} -> server
      [] t.pc \in {"get_fetch", "get_json"} -> SelectSeq(server, LAMBDA p : p.id = t.id)
      [] OTHER -> t.resp

Echo(t, roster) ==
    IF t.pc = "add_fetch" /\ roster # server THEN <<roster[Len(roster)]>> ELSE <<>>

\* the API operation a suspended task is inside of, settling with `outcome`
Settle(t, outcome) ==
    CASE t.pc \in {"list_fetch", "list_json"} -> fetchAllPlayers(outcome, Body(t))
      [] t.pc \in {"add_fetch", "add_json"} -> addNewPlayer(outcome, Body(t))
      [] t.pc \in {"get_fetch", "get_json"} -> fetchSinglePlayer(outcome, Body(t))
      [] t.pc = "del_fetch" -> removePlayer(outcome, Body(t))

\* An operation's promise settles: a rejection ends the async function awaiting
\* it (nothing in a handler catches), a value resumes it.  The first entry of
\* the log names the await that settled and how.
Complete(t, outcome) ==
    LET r == Settle(t, outcome)
        eff == IF r.threw
               THEN Effect(<<>>, mainContainer, form, submitListeners,
                           <<Ev("uncaught", t.kind, outcome)>>)
               ELSE Continue(t, r.value)
    IN /\ mainContainer' = eff.dom
       /\ form' = eff.form
       /\ submitListeners' = eff.listeners
       /\ tasks' = (tasks (-) SetToBag({t})) (+) SeqToBag(eff.spawn)
       /\ log' = <<Ev("settled", t.pc, [kind |-> t.kind, outcome |-> outcome])>>
                    \o r.evs \o eff.evs

\* What the remote API does with a request, applied when the fetch settles:
\* POST stores the record under a fresh identifier or refuses it (a record
\* without a name is always refused), DELETE drops the record, GET changes
\* nothing.
Refused(t) == server
Created(t) == Append(server, NewPlayer(nextId, t.data))
Deleted(t) == SelectSeq(server, LAMBDA p : p.id # t.id)

Outcomes(t) ==
    CASE t.pc = "add_fetch" ->
            {Refused(t)} \cup (IF nextId <= MaxPlayers /\ t.data.name # ""
                                THEN {Created(t)} ELSE {})
      [] t.pc = "del_fetch" -> {Deleted(t)}
      [] OTHER -> {server}

\* await fetch(...) rejects: the request was lost, or it was served and the
\* response was lost
FetchRejects(t) ==
    /\ t.pc \in FetchPcs
    /\ \E roster \in {server} \cup Outcomes(t) :
         /\ server' = roster
         /\ nextId' = IF Len(roster) > Len(server) THEN nextId + 1 ELSE nextId
    /\ Complete(t, "neterr")

\* await fetch(...) resolves with the response of the remote API
FetchResolves(t) ==
    /\ t.pc \in FetchPcs
    /\ \E roster \in Outcomes(t) :
         /\ server' = roster
         /\ nextId' = IF Len(roster) > Len(server) THEN nextId + 1 ELSE nextId
         /\ IF t.pc = "del_fetch"
            THEN Complete(t, "ok")
            ELSE /\ tasks' = (tasks (-) SetToBag({t}))
                               (+) SetToBag({[t EXCEPT !.resp = Echo(t, roster),
                                                       !.pc =
                                 CASE t.pc = "add_fetch" -> "add_json"
                                   [] t.pc = "list_fetch" -> "list_json"
                                   [] t.pc = "get_fetch" -> "get_json"]})
                 /\ log' = <<>>
                 /\ UNCHANGED <<mainContainer, form, submitListeners>>

\* await response.json() settles
JsonSettles(t, outcome) ==
    /\ t.pc \in JsonPcs
    /\ Complete(t, outcome)
    /\ UNCHANGED <<server, nextId>>

\* ------------------------------------------------------------ user events
TypeInput(f) ==
    /\ submitListeners > 0
    /\ f # form
    /\ form' = f
    /\ log' = <<>>
    /\ UNCHANGED <<server, nextId, mainContainer, submitListeners, tasks>>

\* submit event: every attached listener runs
Submit ==
    /\ submitListeners > 0
    /\ Room(submitListeners * Len(submitStart(form).spawn))
    /\ tasks' = tasks (+) SeqToBag(Repeat(submitStart(form).spawn, submitListeners))
    /\ log' = Repeat(submitStart(form).evs, submitListeners)
    /\ UNCHANGED <<server, nextId, mainContainer, form, submitListeners>>

IsCard(i) == mainContainer[i].tag = "player-card"

ClickRemove(i) ==
    /\ IsCard(i)
    /\ Room(Len(removeClick(mainContainer[i]).spawn))
    /\ tasks' = tasks (+) SeqToBag(removeClick(mainContainer[i]).spawn)
    /\ log' = removeClick(mainContainer[i]).evs
    /\ UNCHANGED <<server, nextId, mainContainer, form, submitListeners>>

ClickDetails(i) ==
    /\ IsCard(i)
    /\ mainContainer' = detailClick(mainContainer, mainContainer[i]).dom
    /\ log' = detailClick(mainContainer, mainContainer[i]).evs
    /\ UNCHANGED <<server, nextId, form, submitListeners, tasks>>

ClickBack ==
    /\ \E i \in DOMAIN mainContainer : mainContainer[i].tag = "single-player"
    /\ Room(Len(backClick.spawn))
    /\ tasks' = tasks (+) SeqToBag(backClick.spawn)
    /\ log' = backClick.evs
    /\ UNCHANGED <<server, nextId, mainContainer, form, submitListeners>>

\* ------------------------------------------------------------ specification
\* the page as the script leaves it: init() has run up to its await
Init ==
    /\ server \in {<<>>, SeedRoster}
    /\ nextId = Len(server) + 1
    /\ mainContainer = <<>>
    /\ form = EmptyForm
    /\ submitListeners = 0
    /\ tasks = SeqToBag(initStart.spawn)
    /\ log = initStart.evs

Next ==
    \/ \E t \in Pending : FetchRejects(t)
    \/ \E t \in Pending : FetchResolves(t)
    \/ \E t \in Pending : \E o \in {"ok", "badjson", "nodata"} : JsonSettles(t, o)
    \/ \E f \in TypedForms \cup {EmptyForm} : TypeInput(f)
    \/ Submit
    \/ \E i \in DOMAIN mainContainer : ClickRemove(i)
    \/ \E i \in DOMAIN mainContainer : ClickDetails(i)
    \/ ClickBack

Spec == Init /\ [][Next]_vars

\* ------------------------------------------------------------ exported API
\* Outside a browser the script does not run init(): it exports its functions
\* (module.exports), and a caller awaits the four API operations directly.
\* fetchSinglePlayer has no caller in the page itself.
Call(pc, data, id, evs) ==
    /\ Room(1)
    /\ tasks' = tasks (+) SetToBag({NewTask("caller", pc, data, id)})
    /\ log' = evs
    /\ UNCHANGED <<server, nextId, mainContainer, form, submitListeners>>

CallFetchAllPlayers ==
    Call("list_fetch", EmptyForm, NoId,
         <<Ev("call", "fetchAllPlayers", "caller"), FetchGet>>)

CallFetchSinglePlayer(id) ==
    Call("get_fetch", EmptyForm, id,
         <<Ev("call", "fetchSinglePlayer", id), Ev("fetch", "GET /players/{id}", id)>>)

CallAddNewPlayer(data) ==
    Call("add_fetch", data, NoId,
         <<Ev("call", "addNewPlayer", data), Ev("fetch", "POST /players", data)>>)

CallRemovePlayer(id) ==
    Call("del_fetch", EmptyForm, id,
         <<Ev("call", "removePlayer", id), Ev("fetch", "DELETE /players/{id}", id)>>)

InitApi ==
    /\ server \in {<<>>, SeedRoster}
    /\ nextId = Len(server) + 1
    /\ mainContainer = <<>>
    /\ form = EmptyForm
    /\ submitListeners = 0
    /\ tasks = EmptyBag
    /\ log = <<>>

NextApi ==
    \/ CallFetchAllPlayers
    \/ \E id \in 1..MaxPlayers : CallFetchSinglePlayer(id)
    \/ \E data \in TypedForms \cup {EmptyForm} : CallAddNewPlayer(data)
    \/ \E id \in 1..MaxPlayers : CallRemovePlayer(id)
    \/ \E t \in Pending : FetchRejects(t)
    \/ \E t \in Pending : FetchResolves(t)
    \/ \E t \in Pending : \E o \in {"ok", "badjson", "nodata"} : JsonSettles(t, o)

SpecApi == InitApi /\ [][NextApi]_vars

\* ------------------------------------------------------------ exported renderers
\* The renderers called directly (they are exported too), on any content of
\* <main>, with any list of records of distinct identifiers.  The log keeps the
\* previous call and this one.
Players == {NewPlayer(id, f) : id \in 1..MaxPlayers, f \in TypedForms \cup {EmptyForm}}

RECURSIVE ListsOver(_)
ListsOver(ids) ==
    {<<>>} \cup UNION {{<<p>> \o l : l \in ListsOver(ids \ {p.id})} :
                          p \in {q \in Players : q.id \in ids}}

PlayerLists == {Undefined} \cup {Some(l) : l \in ListsOver(1..MaxPlayers)}

LastCall == IF log = <<>> THEN <<>> ELSE <<log[Len(log)]>>

CallRenderAllPlayers(playerList) ==
    /\ mainContainer' = renderAllPlayers(mainContainer, playerList)
    /\ log' = LastCall \o <<Ev("call", "renderAllPlayers", playerList)>>
    /\ UNCHANGED <<server, nextId, form, submitListeners, tasks>>

CallRenderSinglePlayer(player) ==
    /\ mainContainer' = renderSinglePlayer(mainContainer, player)
    /\ log' = LastCall \o <<Ev("call", "renderSinglePlayer", player)>>
    /\ UNCHANGED <<server, nextId, form, submitListeners, tasks>>

InitRender ==
    /\ server = <<>>
    /\ nextId = 1
    /\ mainContainer = <<>>
    /\ form = EmptyForm
    /\ submitListeners = 0
    /\ tasks = EmptyBag
    /\ log = <<>>

NextRender ==
    \/ \E playerList \in PlayerLists : CallRenderAllPlayers(playerList)
    \/ \E player \in {Undefined} \cup {Some(p) : p \in Players} :
          CallRenderSinglePlayer(player)

SpecRender == InitRender /\ [][NextRender]_vars

\* ============================================================ properties
\* What a reader of the page sees, stated apart from the renderers.
Placeholder == <<[tag |-> "h3", text |-> "No Players Found!"]>>

Shows(card, player) ==
    /\ card.tag = "player-card"
    /\ card.h4 = player.name
    /\ card.p = player.id
    /\ card.removeId = player.id
    /\ card.detail = player

IsCardList(dom, list) ==
    /\ Len(dom) = Len(list)
    /\ \A i \in DOMAIN dom : Shows(dom[i], list[i])

IsListView(dom, playerList) ==
    IF ~playerList.defined \/ playerList.v = <<>>
    THEN dom = Placeholder
    ELSE IsCardList(dom, playerList.v)

IsDetailView(dom, player) ==
    /\ Len(dom) = 1
    /\ dom[1].tag = "single-player"
    /\ dom[1].h4 = player.name
    /\ dom[1].p = player.id
    /\ dom[1].breed = player.breed

Is(x, e, f) == x.e = e /\ x.f = f
LogHas(e, f) == \E i \in DOMAIN log : Is(log[i], e, f)
ListPcs == {"list_fetch", "list_json"}
AddPcs == {"add_fetch", "add_json"}
\* the run just finished resumed a handler of this kind at one of these awaits
Resumed(kind, pcs) ==
    /\ log # <<>>
    /\ log[1].e = "settled"
    /\ log[1].f \in pcs
    /\ log[1].a.kind = kind
\* the run just finished started with this call
Started(f) == log # <<>> /\ Is(log[1], "call", f)
\* the request or the decoding of its response failed
Failed == log # <<>> /\ log[1].e = "settled" /\ log[1].a.outcome \in {"neterr", "badjson"}
ErrorLogged == \E i \in DOMAIN log : log[i].e = "console.error"
Uncaught == \E i \in DOMAIN log : log[i].e = "uncaught"
OpOf(pc) ==
    CASE pc \in ListPcs -> "fetchAllPlayers"
      [] pc \in AddPcs -> "addNewPlayer"
      [] pc \in {"get_fetch", "get_json"} -> "fetchSinglePlayer"
      [] pc = "del_fetch" -> "removePlayer"
Count(kind, pcs) ==
    LET S == {u \in Pending : u.kind = kind /\ u.pc \in pcs}
        RECURSIVE Sum(_)
        Sum(T) == IF T = {} THEN 0
                  ELSE LET u == CHOOSE x \in T : TRUE
                       IN CopiesIn(u, tasks) + Sum(T \ {u})
    IN Sum(S)
FormValues == [name |-> form.name, breed |-> form.breed, imageUrl |-> form.imageUrl]

\* C1: a submit reads {name, breed, imageUrl} from the inputs and calls
\* addNewPlayer with exactly that record, issuing the POST and nothing more; the
\* list is fetched only in a run that starts with addNewPlayer having returned;
\* renderAllPlayers gets the value fetchAllPlayers returned; the fields are
\* cleared last, right after that render.
C1_SubmitOrder ==
    /\ \A i \in DOMAIN log : Is(log[i], "call", "addNewPlayer") =>
          /\ DOMAIN log[i].a = {"name", "breed", "imageUrl"}
          /\ log[i].a = FormValues
          /\ i < Len(log)
          /\ Is(log[i + 1], "fetch", "POST /players")
          /\ log[i + 1].a = log[i].a
          /\ ~LogHas("fetch", "GET /players")
          /\ \E t \in Pending : t.kind = "submit" /\ t.pc = "add_fetch" /\ t.data = log[i].a
    /\ \A i \in DOMAIN log :
          (Is(log[i], "call", "fetchAllPlayers") /\ log[i].a = "submit") =>
          /\ i > 1
          /\ Is(log[i - 1], "return", "addNewPlayer")
          /\ Resumed("submit", AddPcs)
          /\ i < Len(log)
          /\ Is(log[i + 1], "fetch", "GET /players")
    /\ \A i \in DOMAIN log : log[i].e = "clear" =>
          /\ i > 2
          /\ i = Len(log)
          /\ Is(log[i - 1], "call", "renderAllPlayers")
          /\ Is(log[i - 2], "return", "fetchAllPlayers")
          /\ log[i - 1].a = log[i - 2].a
          /\ Resumed("submit", ListPcs)
          /\ IsListView(mainContainer, log[i - 1].a)
          /\ form = [name |-> "", breed |-> "", imageUrl |-> ""]
    /\ Resumed("submit", ListPcs) => LogHas("clear", "form")

C1_Witness ==
    /\ Resumed("submit", {"list_json"})
    /\ log[1].a.outcome = "ok"
    /\ LogHas("clear", "form")
    /\ Len(mainContainer) = 2
    /\ \E i \in DOMAIN server : server[i].id = 2 /\ server[i].name = "Rex"

\* C2: when the request or the decoding of its response fails, each of the four
\* API operations logs the error and its promise resolves with undefined; no
\* exception of an operation reaches the code that awaits it.
C2_ErrorsSwallowed ==
    /\ ~Uncaught
    /\ Failed =>
          /\ Len(log) >= 3
          /\ Is(log[2], "console.error", OpOf(log[1].f))
          /\ Is(log[3], "return", OpOf(log[1].f))
          /\ ~log[3].a.defined
          /\ log[1].a.kind = "caller" =>
                Len(log) = 4 /\ log[4].e = "resolved" /\ ~log[4].a.defined

C2_Witness ==
    /\ Failed
    /\ log[1].f = "get_json"
    /\ Is(log[2], "console.error", "fetchSinglePlayer")

\* C3: after renderAllPlayers is called with N >= 1 records, <main> holds
\* exactly N cards in the order of the records, the i-th showing the i-th
\* record's name and identifier; a click on a card's remove button calls
\* removePlayer with the identifier that card shows, and a click on its detail
\* button calls renderSinglePlayer with the record of that card.
C3_CardsMatchRecords ==
    [][/\ \A i \in DOMAIN log' :
            (Is(log'[i], "call", "renderAllPlayers") /\ log'[i].a.defined
                /\ Len(log'[i].a.v) >= 1) =>
            /\ Len(mainContainer') = Len(log'[i].a.v)
            /\ IsCardList(mainContainer', log'[i].a.v)
       /\ Started("removePlayer")' =>
            \E c \in DOMAIN mainContainer :
               /\ mainContainer[c].tag = "player-card"
               /\ mainContainer[c].p = log'[1].a
               /\ \A d \in DOMAIN mainContainer :
                     mainContainer[d].p = log'[1].a => d = c
       /\ Started("renderSinglePlayer")' =>
            /\ log'[1].a.defined
            /\ \E c \in DOMAIN mainContainer : Shows(mainContainer[c], log'[1].a.v)
            /\ IsDetailView(mainContainer', log'[1].a.v)
      ]_vars

C3_Witness ==
    /\ \E i \in DOMAIN log :
          /\ Is(log[i], "call", "renderAllPlayers")
          /\ log[i].a.defined
          /\ Len(log[i].a.v) = 2
          /\ log[i].a.v[1].id # log[i].a.v[2].id
    /\ Len(mainContainer) = 2
    /\ mainContainer[1].p = 1
    /\ mainContainer[2].p = 2

C5_RemoveThenRerender ==
    Resumed("detached", {"del_fetch"}) =>
        LogHas("call", "renderAllPlayers") \/ LogHas("call", "fetchAllPlayers")

\* C6 as stated: a run in which a backend call fails only logs the failure
\* and leaves <main> as it was.
C6_FailureLeavesDisplay ==
    [][ErrorLogged' => mainContainer' = mainContainer]_vars

\* C6 amended: a failed backend call is only logged, and the handler goes on.
\* A failed List request makes its handler (initial load, back, submit) replace
\* <main> with the "No Players Found!" placeholder; a failed Create or Delete
\* request by itself leaves <main> as it was, and the submit handler still
\* fetches the list after a failed Create.
C6_FailureShowsPlaceholder ==
    [][ErrorLogged' =>
         /\ log'[1].e = "settled"
         /\ ~Uncaught'
         /\ log'[1].f \in ListPcs =>
               /\ log'[1].a.kind \in {"init", "back", "submit"}
               /\ mainContainer' = Placeholder
               /\ LogHas("call", "renderAllPlayers")'
         /\ log'[1].f \in AddPcs =>
               /\ mainContainer' = mainContainer
               /\ LogHas("fetch", "GET /players")'
               /\ Count("submit", {"list_fetch"})' = Count("submit", {"list_fetch"}) + 1
         /\ log'[1].f = "del_fetch" =>
               /\ mainContainer' = mainContainer
               /\ BagCardinality(tasks') = BagCardinality(tasks) - 1
      ]_vars

C6_Witness ==
    /\ Resumed("back", ListPcs)
    /\ Failed
    /\ ErrorLogged
    /\ mainContainer = Placeholder
    /\ server # <<>>

\* C7: a click on the back button of a detail view issues a List request, and
\* when it completes renderAllPlayers is called with the value that request
\* produced: <main> then shows the roster as fetched by it (the placeholder if
\* it is empty or the request failed).
C7_BackFetchesFresh ==
    /\ (Started("fetchAllPlayers") /\ log[1].a = "back") =>
          /\ Len(log) = 2
          /\ Is(log[2], "fetch", "GET /players")
          /\ Count("back", {"list_fetch"}) >= 1
          /\ Len(mainContainer) = 1
          /\ mainContainer[1].tag = "single-player"
    /\ Resumed("back", ListPcs) =>
          /\ Len(log) >= 3
          /\ Is(log[Len(log) - 1], "return", "fetchAllPlayers")
          /\ Is(log[Len(log)], "call", "renderAllPlayers")
          /\ log[Len(log)].a = log[Len(log) - 1].a
          /\ log[1].a.outcome = "ok" =>
                log[Len(log)].a.defined /\ log[Len(log)].a.v = server
          /\ log[1].a.outcome # "ok" => ~log[Len(log)].a.defined
          /\ IsListView(mainContainer, log[Len(log) - 1].a)

C7_Witness ==
    /\ Resumed("back", {"list_json"})
    /\ log[1].a.outcome = "ok"
    /\ log[Len(log)].a.defined
    /\ server = <<>>
    /\ mainContainer = Placeholder

\* C8: after renderAllPlayers(L), whatever <main> held before, <main> holds the
\* view of L and nothing else (the placeholder for an empty or absent L, else
\* one card per record of L, in order), and calling renderAllPlayers(L) again
\* leaves it as it is.
C8_RenderReplaces ==
    (log # <<>> /\ Is(log[Len(log)], "call", "renderAllPlayers")) =>
        /\ IsListView(mainContainer, log[Len(log)].a)
        /\ renderAllPlayers(mainContainer, log[Len(log)].a) = mainContainer

C8_Witness ==
    /\ Len(log) = 2
    /\ Is(log[1], "call", "renderAllPlayers")
    /\ Is(log[2], "call", "renderAllPlayers")
    /\ log[1].a = log[2].a
    /\ log[2].a.defined
    /\ Len(log[2].a.v) = 2
    /\ Len(mainContainer) = 2

\* C9: whatever the outcomes of the Create and List requests of a submit, the
\* submit handler is never ended by an exception: after the Create request it
\* goes on to fetch the list, after the List request it renders and leaves the
\* three fields empty; and every submit issues exactly one POST with the values
\* the inputs hold at that time.
C9_FormStaysUsable ==
    /\ ~Uncaught
    /\ Resumed("submit", AddPcs) =>
          /\ Is(log[Len(log)], "fetch", "GET /players")
          /\ Count("submit", {"list_fetch"}) >= 1
    /\ Resumed("submit", ListPcs) =>
          /\ log[Len(log)].e = "clear"
          /\ form.name = "" /\ form.breed = "" /\ form.imageUrl = ""
    /\ Started("addNewPlayer") =>
          /\ submitListeners = 1
          /\ Len(log) = 2
          /\ Is(log[2], "fetch", "POST /players")
          /\ log[2].a = FormValues
          /\ Cardinality({i \in DOMAIN log : Is(log[i], "fetch", "POST /players")}) = 1

C9_Witness ==
    /\ Resumed("submit", ListPcs)
    /\ Failed
    /\ mainContainer = Placeholder
    /\ server # <<>>
    /\ form = EmptyForm

\* C10: under every interleaving of user events and network completions,
\* <main> is empty only until init() renders, and every change of <main> is
\* the whole output of one render call of the run that made it: the view of the value fetchAllPlayers returned (the
\* placeholder or all its cards), or the detail card of one record.  So <main>
\* never holds cards of two lists or part of a list.
OneRender(dom) ==
    \/ dom = <<>>
    \/ dom = Placeholder
    \/ /\ \A i \in DOMAIN dom : Shows(dom[i], dom[i].detail)
       /\ \A i, j \in DOMAIN dom : i < j => dom[i].p < dom[j].p
    \/ Len(dom) = 1 /\ dom[1].tag = "single-player"

C10_RenderAtomic ==
    [][/\ OneRender(mainContainer')
       /\ mainContainer' = <<>> => Count("init", ListPcs)' = 1
       /\ mainContainer' # mainContainer =>
            \E i \in DOMAIN log' :
               \/ /\ Is(log'[i], "call", "renderAllPlayers")
                  /\ i > 1
                  /\ Is(log'[i - 1], "return", "fetchAllPlayers")
                  /\ log'[i - 1].a = log'[i].a
                  /\ IsListView(mainContainer', log'[i].a)
               \/ /\ Is(log'[i], "call", "renderSinglePlayer")
                  /\ log'[i].a.defined
                  /\ IsDetailView(mainContainer', log'[i].a.v)
      ]_vars

C10_Witness ==
    /\ Resumed("submit", ListPcs)
    /\ BagCardinality(tasks) >= 1
    /\ \E t \in Pending : t.kind = "back" /\ t.pc = "list_json"
    /\ Len(mainContainer) = 2

====
